---- MODULE Spec2Model ----
(***************************************************************************)
(* Day 05 range-remapping engine (src/src/bin/day05.rs).                   *)
(*                                                                         *)
(* A Translation is the record [src, dst, rng]; a Range<u64> is the record *)
(* [start, end] (end exclusive); a Map is its `translations` vector, a     *)
(* sequence of Translations.  The pure functions of the source are         *)
(* operators, computed the way the code computes them; eleven              *)
(* specifications drive them:                                              *)
(*   Spec             solve2 followed by solve2b on the same parsed input  *)
(*   SpecSolve        solve on a parsed input                              *)
(*   SpecParse        parse_input on a text                                *)
(*   SpecMap          one add_map (and detect_overlaps) on a well-formed   *)
(*                    Map                                                  *)
(*   SpecAddMapSteps  add_map statement by statement                       *)
(*   SpecQuery        one query (&self method) on a Map                    *)
(*   SpecRange        Map::translate_range alone                           *)
(*   SpecScalar       Map::translate on a value                            *)
(*   SpecTranslation  Translation::translate_range or one function of the  *)
(*                    interval algebra on translations                     *)
(*   SpecVec          one vector operation on two translation lists        *)
(*   SpecSimplify     Map::simplify_ranges on a list of ranges             *)
(***************************************************************************)
EXTENDS Integers, Sequences, FiniteSets, TLC

VARIABLES
    input,      \* parse_input's result: [seeds: Seq(u64), categories: Seq(Map)]
    pc,         \* position of the driver
    ranges,     \* solve2: `ranges`
    ci,         \* number of categories consumed by the running loop
    basemap,    \* solve2b: `basemap.translations`
    res2,       \* value returned by solve2   (NoResult until it returns)
    res2b,      \* value returned by solve2b  (NoResult until it returns)
    self,       \* `self.translations` of the Map under test
    call        \* the last call on it: its name, arguments and result

vars == <<input, pc, ranges, ci, basemap, res2, res2b, self, call>>

----------------------------------------------------------------------------
(* Bounds of the model *)

MaxVal == 3          \* coordinates are drawn from 0..MaxVal
MaxTrans == 2        \* translations per Map (SpecQuery)
MaxAddTrans == 1     \* translations per Map (SpecMap)
MaxStageTrans == 1   \* translations per stage (Spec)
MaxStages == 2       \* stages per input (Spec)
MaxRanges == 2       \* ranges handed to lowest_in_ranges (SpecQuery)
MaxLen == 3          \* ranges handed to simplify_ranges (SpecSimplify)
MaxSeedTokens == 3   \* tokens of the first paragraph (SpecParse)
MaxFields == 4       \* fields of a translation line (SpecParse)

NoResult == 0 - 1

----------------------------------------------------------------------------
(* Values *)

T(s, d, n) == [src |-> s, dst |-> d, rng |-> n]
R(a, b) == [start |-> a, end |-> b]

Min(S) == CHOOSE x \in S : \A y \in S : x <= y

RECURSIVE Flatten(_)
Flatten(ss) == IF ss = <<>> THEN <<>> ELSE Head(ss) \o Flatten(Tail(ss))

----------------------------------------------------------------------------
(* struct Translation *)

\* mutant: the source interval read as closed
in_range_closed(t, value) == value >= t.src /\ value <= t.src + t.rng

in_range(t, value) == value >= t.src /\ value < t.src + t.rng

Translation_translate(t, value) ==
    IF in_range(t, value) THEN t.dst + (value - t.src) ELSE value

start(t) == t.src

end(t) == t.src + t.rng

range(t) == R(start(t), end(t))

out_range(t) == R(t.dst, t.dst + t.rng)

\* the value a panicking snip leaves behind: no Translation has rng < 0
PanicT == [src |-> 0, dst |-> 0, rng |-> 0 - 1]

snip_left(t, amount) ==
    IF amount > t.rng \/ amount < 0 \/ t.rng < 0 THEN PanicT
    ELSE [src |-> t.src + amount, dst |-> t.dst + amount, rng |-> t.rng - amount]

snip_right(t, amount) ==
    IF amount > t.rng \/ amount < 0 \/ t.rng < 0 THEN PanicT
    ELSE [src |-> t.src, dst |-> t.dst, rng |-> t.rng - amount]

\* mutant: the left-overlap case tests r.end against the wrong side of end()
Translation_translate_range_no_left(t, r) ==
    IF start(t) >= r.start /\ end(t) <= r.end THEN
        [translated |-> <<R(Translation_translate(t, start(t)),
                            Translation_translate(t, end(t) - 1) + 1)>>,
         not_translated |->
             (IF r.start < start(t) THEN <<R(r.start, start(t))>> ELSE <<>>)
             \o (IF r.end > end(t) THEN <<R(end(t), r.end)>> ELSE <<>>),
         panic |-> FALSE]
    ELSE IF r.start >= start(t) /\ r.end <= end(t) THEN
        [translated |-> <<R(Translation_translate(t, r.start),
                            Translation_translate(t, r.end))>>,
         not_translated |-> <<>>,
         panic |-> FALSE]
    ELSE IF r.start < start(t) /\ r.end > start(t) /\ r.end > end(t) THEN
        [translated |-> <<R(Translation_translate(t, start(t)),
                            Translation_translate(t, r.end - 1) + 1)>>,
         not_translated |-> <<R(r.start, start(t))>>,
         panic |-> FALSE]
    ELSE IF r.start >= start(t) /\ r.start <= end(t) /\ r.end > end(t) THEN
        [translated |-> <<R(Translation_translate(t, r.start),
                            Translation_translate(t, end(t)))>>,
         not_translated |-> <<R(end(t), r.end)>>,
         panic |-> FALSE]
    ELSE IF end(t) <= r.start \/ start(t) >= r.end THEN
        [translated |-> <<>>, not_translated |-> <<r>>, panic |-> FALSE]
    ELSE
        [translated |-> <<>>, not_translated |-> <<>>, panic |-> TRUE]

\* (translated, not_translated); panic is set where the code reaches
\* panic!("translate_range: unhandled case")
Translation_translate_range(t, r) ==
    IF start(t) >= r.start /\ end(t) <= r.end THEN
        [translated |-> <<R(Translation_translate(t, start(t)),
                            Translation_translate(t, end(t) - 1) + 1)>>,
         not_translated |->
             (IF r.start < start(t) THEN <<R(r.start, start(t))>> ELSE <<>>)
             \o (IF r.end > end(t) THEN <<R(end(t), r.end)>> ELSE <<>>),
         panic |-> FALSE]
    ELSE IF r.start >= start(t) /\ r.end <= end(t) THEN
        [translated |-> <<R(Translation_translate(t, r.start),
                            Translation_translate(t, r.end))>>,
         not_translated |-> <<>>,
         panic |-> FALSE]
    ELSE IF r.start < start(t) /\ r.end > start(t) /\ r.end < end(t) THEN
        [translated |-> <<R(Translation_translate(t, start(t)),
                            Translation_translate(t, r.end - 1) + 1)>>,
         not_translated |-> <<R(r.start, start(t))>>,
         panic |-> FALSE]
    ELSE IF r.start >= start(t) /\ r.start <= end(t) /\ r.end > end(t) THEN
        [translated |-> <<R(Translation_translate(t, r.start),
                            Translation_translate(t, end(t)))>>,
         not_translated |-> <<R(end(t), r.end)>>,
         panic |-> FALSE]
    ELSE IF end(t) <= r.start \/ start(t) >= r.end THEN
        [translated |-> <<>>, not_translated |-> <<r>>, panic |-> FALSE]
    ELSE
        [translated |-> <<>>, not_translated |-> <<>>, panic |-> TRUE]

----------------------------------------------------------------------------
(* Interval algebra on Translations *)

trans_sub_src(a, b) ==
    IF start(b) <= start(a) /\ end(b) >= end(a) THEN <<>>
    ELSE IF start(b) > end(a) \/ end(b) < start(a) THEN <<a>>
    ELSE
        (IF start(b) > start(a) /\ start(b) < end(a) /\ end(b) >= end(a)
         THEN <<snip_right(a, end(a) - start(b))>> ELSE <<>>)
        \o (IF start(b) <= start(a) /\ end(b) > start(a) /\ end(b) < end(a)
            THEN <<snip_left(a, end(b) - start(a))>> ELSE <<>>)
        \o (IF start(b) > start(a) /\ end(b) < end(a)
            THEN <<snip_right(a, end(a) - start(b)),
                   snip_left(a, end(b) - start(a))>>
            ELSE <<>>)

\* mutant: the snip amounts measured on a's source instead of its output
trans_sub_dst_src_amounts(a, b) ==
    LET ao == out_range(a) IN
    IF start(b) <= ao.start /\ end(b) >= ao.end THEN <<>>
    ELSE IF start(b) > ao.end \/ end(b) <= ao.start THEN <<a>>
    ELSE
        (IF start(b) > ao.start /\ start(b) < ao.end /\ end(b) >= ao.end
         THEN <<snip_right(a, end(a) - start(b))>> ELSE <<>>)
        \o (IF start(b) <= ao.start /\ end(b) > ao.start /\ end(b) < ao.end
            THEN <<snip_left(a, end(b) - start(a))>> ELSE <<>>)
        \o (IF start(b) > ao.start /\ end(b) < ao.end
            THEN <<snip_right(a, end(a) - start(b)),
                   snip_left(a, end(b) - start(a))>>
            ELSE <<>>)

trans_sub_dst(a, b) ==
    LET ao == out_range(a) IN
    IF start(b) <= ao.start /\ end(b) >= ao.end THEN <<>>
    ELSE IF start(b) > ao.end \/ end(b) <= ao.start THEN <<a>>
    ELSE
        (IF start(b) > ao.start /\ start(b) < ao.end /\ end(b) >= ao.end
         THEN <<snip_right(a, ao.end - start(b))>> ELSE <<>>)
        \o (IF start(b) <= ao.start /\ end(b) > ao.start /\ end(b) < ao.end
            THEN <<snip_left(a, end(b) - ao.start)>> ELSE <<>>)
        \o (IF start(b) > ao.start /\ end(b) < ao.end
            THEN <<snip_right(a, ao.end - start(b)),
                   snip_left(a, end(b) - ao.start)>>
            ELSE <<>>)

\* mutant: the clone of b keeps its own source
with_src_kept(t, x) == t

\* `t.src = x` on a clone of b after its snips (a panicked snip stays panicked)
with_src(t, x) == IF t.rng < 0 THEN PanicT ELSE [t EXCEPT !.src = x]

trans_shift_overlaps(a, b) ==
    LET ao == out_range(a) IN
    IF start(b) <= ao.start /\ end(b) >= ao.end THEN
        <<with_src(snip_right(snip_left(b, ao.start - start(b)), end(b) - ao.end),
                   a.src)>>
    ELSE IF start(b) > ao.end \/ end(b) < ao.start THEN <<>>
    ELSE
        (IF start(b) > ao.start /\ start(b) < ao.end /\ end(b) >= ao.end
         THEN <<with_src(snip_right(b, end(b) - ao.end),
                         a.src + (start(b) - ao.start))>>
         ELSE <<>>)
        \o (IF start(b) <= ao.start /\ end(b) > ao.start /\ end(b) < ao.end
            THEN <<with_src(snip_left(b, ao.start - start(b)), a.src)>>
            ELSE <<>>)
        \o (IF start(b) > ao.start /\ end(b) < ao.end
            THEN <<with_src(b, a.src + (start(b) - ao.start))>>
            ELSE <<>>)

\* mutant: the pieces of a later element pushed in front
RECURSIVE sub_each_rev(_, _, _)
sub_each_rev(out, bt, dstSide) ==
    IF out = <<>> THEN <<>>
    ELSE sub_each_rev(Tail(out), bt, dstSide)
         \o (IF dstSide THEN trans_sub_dst(Head(out), bt)
                         ELSE trans_sub_src(Head(out), bt))

\* the inner `for ot in out.iter()` of the two subtractions, for one bt
RECURSIVE sub_each(_, _, _)
sub_each(out, bt, dstSide) ==
    IF out = <<>> THEN <<>>
    ELSE (IF dstSide THEN trans_sub_dst(Head(out), bt)
                     ELSE trans_sub_src(Head(out), bt))
         \o sub_each(Tail(out), bt, dstSide)

\* the outer `for bt in b.iter()`: each bt splits every surviving piece
RECURSIVE sub_fold(_, _, _)
sub_fold(out, b, dstSide) ==
    IF b = <<>> THEN out
    ELSE sub_fold(sub_each(out, Head(b), dstSide), Tail(b), dstSide)

trans_vec_sub_src(a, b) == sub_fold(a, b, FALSE)

trans_vec_sub_dst(a, b) == sub_fold(a, b, TRUE)

RECURSIVE shift_each(_, _)
shift_each(a, bt) ==
    IF a = <<>> THEN <<>>
    ELSE trans_shift_overlaps(Head(a), bt) \o shift_each(Tail(a), bt)

RECURSIVE trans_vec_shift_overlaps(_, _)
trans_vec_shift_overlaps(a, b) ==
    IF b = <<>> THEN <<>>
    ELSE shift_each(a, Head(b)) \o trans_vec_shift_overlaps(a, Tail(b))

----------------------------------------------------------------------------
(* struct Map: the operators take `translations`, the Map's only field *)

RECURSIVE Map_translate(_, _)
Map_translate(m, value) ==
    IF m = <<>> THEN value
    ELSE IF in_range(Head(m), value) THEN Translation_translate(Head(m), value)
    ELSE Map_translate(Tail(m), value)

\* HashMap<Range, Range>: one entry per distinct source range, a later
\* translation replacing an earlier one with the same key
range_map(m) ==
    [k \in {range(m[i]) : i \in DOMAIN m} |->
        LET last == CHOOSE i \in DOMAIN m :
                        /\ range(m[i]) = k
                        /\ \A j \in DOMAIN m : range(m[j]) = k => j <= i
        IN R(Translation_translate(m[last], start(m[last])),
             Translation_translate(m[last], end(m[last]) - 1) + 1)]

\* TRUE iff detect_overlaps reaches panic!("overlap detected")
detect_overlaps(m) ==
    LET keys == DOMAIN range_map(m) IN
    \E k \in keys : \E k2 \in keys :
        k # k2 /\ k.start < k2.end /\ k.end > k2.start

\* mutant: the "naive approach" the source warns against, the incoming
\* translations appended to the existing ones unadapted
add_adapt_translations_naive(m, ts) == m \o ts

\* mutant: the adapted existing translations are never put back
add_adapt_translations_no_holes(m, ts) ==
    trans_vec_sub_src(ts, m) \o trans_vec_shift_overlaps(m, ts)

add_adapt_translations(m, ts) ==
    LET new_inputs == trans_vec_sub_src(ts, m)
        existing_with_holes == trans_vec_sub_dst(m, ts)
        new_shifted == trans_vec_shift_overlaps(m, ts)
    IN new_inputs \o existing_with_holes \o new_shifted

add_map(m, other) == add_adapt_translations(m, other)

\* ranges.sort_by(|a, b| a.start.cmp(&b.start)): a stable sort
RECURSIVE insert_by_start(_, _)
insert_by_start(sorted, x) ==
    IF sorted = <<>> THEN <<x>>
    ELSE IF Head(sorted).start <= x.start
         THEN <<Head(sorted)>> \o insert_by_start(Tail(sorted), x)
         ELSE <<x>> \o sorted

\* mutant: the ranges left in the order given
sort_by_start_skipped(todo, sorted) == sorted \o todo

RECURSIVE sort_by_start(_, _)
sort_by_start(todo, sorted) ==
    IF todo = <<>> THEN sorted
    ELSE sort_by_start(Tail(todo), insert_by_start(sorted, Head(todo)))

\* mutant: the merge branch is missing, an overlapping range starts a new one
RECURSIVE simplify_loop_no_merge(_, _, _)
simplify_loop_no_merge(rest, current, output) ==
    IF rest = <<>> THEN Append(output, current)
    ELSE LET r == Head(rest) IN
         IF current.start >= r.start /\ current.end <= r.end
         THEN simplify_loop_no_merge(Tail(rest), current, output)
         ELSE simplify_loop_no_merge(Tail(rest), r, Append(output, current))

\* the loop `for r in ranges.iter().skip(1)` and the final push
RECURSIVE simplify_loop(_, _, _)
simplify_loop(rest, current, output) ==
    IF rest = <<>> THEN Append(output, current)
    ELSE LET r == Head(rest) IN
         IF current.start >= r.start /\ current.end <= r.end
         THEN simplify_loop(Tail(rest), current, output)
         ELSE IF current.end >= r.start
         THEN simplify_loop(Tail(rest), R(current.start, r.end), output)
         ELSE IF current.end < r.start
         THEN simplify_loop(Tail(rest), r, Append(output, current))
         ELSE simplify_loop(Tail(rest), current, output)

\* called with a non-empty vector only (ranges[0] of an empty one panics)
simplify_ranges(rs) ==
    IF Len(rs) = 1 THEN rs
    ELSE LET sorted == sort_by_start(rs, <<>>)
         IN simplify_loop(Tail(sorted), Head(sorted), <<>>)

\* one translation against every remaining range:
\* (translated pieces, pieces still to translate, panic)
\* mutant: what a translation leaves untranslated is forgotten
RECURSIVE translate_remaining_forgetful(_, _)
translate_remaining_forgetful(t, remaining) ==
    IF remaining = <<>>
    THEN [translated |-> <<>>, not_translated |-> <<>>, panic |-> FALSE]
    ELSE LET p == Translation_translate_range(t, Head(remaining))
             q == translate_remaining_forgetful(t, Tail(remaining))
         IN [translated |-> p.translated \o q.translated,
             not_translated |-> <<>>,
             panic |-> p.panic \/ q.panic]

RECURSIVE translate_remaining(_, _)
translate_remaining(t, remaining) ==
    IF remaining = <<>>
    THEN [translated |-> <<>>, not_translated |-> <<>>, panic |-> FALSE]
    ELSE LET p == Translation_translate_range(t, Head(remaining))
             q == translate_remaining(t, Tail(remaining))
         IN [translated |-> p.translated \o q.translated,
             not_translated |-> p.not_translated \o q.not_translated,
             panic |-> p.panic \/ q.panic]

\* `for t in self.translations.iter()`: (output, remaining, panic) at its end
RECURSIVE translate_all(_, _, _, _)
translate_all(m, output, remaining, panic) ==
    IF m = <<>> THEN [output |-> output, remaining |-> remaining, panic |-> panic]
    ELSE LET s == translate_remaining(Head(m), remaining)
         IN translate_all(Tail(m), output \o s.translated, s.not_translated,
                          panic \/ s.panic)

\* the vector handed to simplify_ranges
translate_range_output(m, r) ==
    LET s == translate_all(m, <<>>, <<r>>, FALSE)
        output == s.output \o s.remaining
    IN IF output = <<>> THEN <<r>> ELSE output

Map_translate_range_panics(m, r) == translate_all(m, <<>>, <<r>>, FALSE).panic

Map_translate_range(m, r) == simplify_ranges(translate_range_output(m, r))

RECURSIVE translate_each(_, _)
translate_each(m, rs) ==
    IF rs = <<>> THEN <<>>
    ELSE <<Map_translate_range(m, Head(rs))>> \o translate_each(m, Tail(rs))

\* .min().unwrap(): called with at least one range
lowest_in_ranges(m, rs) ==
    LET flat == Flatten(translate_each(m, rs))
    IN Min({flat[i].start : i \in DOMAIN flat})

----------------------------------------------------------------------------
(* Pipeline driver *)

\* mutant: a seed pair read as (start, end) instead of (start, length)
RECURSIVE seed_ranges_start_end(_)
seed_ranges_start_end(seeds) ==
    IF seeds = <<>> THEN <<>>
    ELSE <<R(seeds[1], seeds[2])>> \o seed_ranges_start_end(Tail(Tail(seeds)))

\* seeds.chunks(2).map(|c| c[0]..c[0] + c[1])
RECURSIVE seed_ranges(_)
seed_ranges(seeds) ==
    IF seeds = <<>> THEN <<>>
    ELSE <<R(seeds[1], seeds[1] + seeds[2])>> \o seed_ranges(Tail(Tail(seeds)))

\* the body of `for c in categories` in solve2
solve2_stage(c, rs) == Flatten(translate_each(c, rs))

solve2_stage_panics(c, rs) ==
    \E i \in DOMAIN rs : Map_translate_range_panics(c, rs[i])

\* mutant: the stages applied right to left
RECURSIVE fold_translate_rev(_, _)
fold_translate_rev(categories, acc) ==
    IF categories = <<>> THEN acc
    ELSE Map_translate(Head(categories), fold_translate_rev(Tail(categories), acc))

\* categories.iter().fold(*s, |acc, c| c.translate(acc))
RECURSIVE fold_translate(_, _)
fold_translate(categories, acc) ==
    IF categories = <<>> THEN acc
    ELSE fold_translate(Tail(categories), Map_translate(Head(categories), acc))

\* Iterator::min over a non-empty list: the running minimum
RECURSIVE iter_min(_, _)
iter_min(xs, best) ==
    IF xs = <<>> THEN best
    ELSE iter_min(Tail(xs), IF Head(xs) < best THEN Head(xs) ELSE best)

\* solve: every number of the `seeds:` line is a seed
solve(seeds, categories) ==
    LET locations == [i \in DOMAIN seeds |-> fold_translate(categories, seeds[i])]
    IN  iter_min(Tail(locations), Head(locations))

----------------------------------------------------------------------------
(* Parsing.  A token is the sequence of its characters; a paragraph or a   *)
(* line is the sequence of its tokens, single spaces between them.         *)

Digits == {"0", "1", "2", "3", "4", "5", "6", "7", "8", "9"}

DigitValue ==
    [c \in Digits |->
        CASE c = "0" -> 0 [] c = "1" -> 1 [] c = "2" -> 2 [] c = "3" -> 3
          [] c = "4" -> 4 [] c = "5" -> 5 [] c = "6" -> 6 [] c = "7" -> 7
          [] c = "8" -> 8 [] c = "9" -> 9]

\* the token `seeds:`
SeedsToken == <<"s", "e", "e", "d", "s", ":">>

\* str::parse::<u64> on a token of digits and letters
RECURSIVE decimal(_, _)
decimal(token, acc) ==
    IF token = <<>> THEN acc
    ELSE decimal(Tail(token), 10 * acc + DigitValue[Head(token)])

parse_u64(token) ==
    IF token # <<>> /\ \A i \in DOMAIN token : token[i] \in Digits
    THEN [ok |-> TRUE, value |-> decimal(token, 0)]
    ELSE [ok |-> FALSE, value |-> 0]

\* .replace("seeds: ", ""): every `seeds:` that a space follows goes, with
\* that space
RECURSIVE replace_seeds(_)
replace_seeds(tokens) ==
    IF tokens = <<>> THEN <<>>
    ELSE IF Head(tokens) = SeedsToken /\ Tail(tokens) # <<>>
         THEN replace_seeds(Tail(tokens))
         ELSE <<Head(tokens)>> \o replace_seeds(Tail(tokens))

\* .split(" ").map(|s| s.parse::<u64>().unwrap()): the empty string splits
\* into one empty token
parse_seeds(tokens) ==
    LET rest == IF replace_seeds(tokens) = <<>> THEN << <<>> >>
                ELSE replace_seeds(tokens)
    IN  [panic |-> \E i \in DOMAIN rest : ~parse_u64(rest[i]).ok,
         seeds |-> [i \in DOMAIN rest |-> parse_u64(rest[i]).value]]

\* mutant: a translation line must hold exactly three fields
Translation_from_str_exact(line) ==
    IF Len(line) # 3 THEN [panic |-> TRUE, t |-> PanicT]
    ELSE [panic |-> \E i \in 1..3 : ~parse_u64(line[i]).ok,
          t |-> T(parse_u64(line[2]).value, parse_u64(line[1]).value,
                  parse_u64(line[3]).value)]

\* FromStr for Translation: the first three fields, dst src rng
Translation_from_str(line) ==
    IF Len(line) < 3 THEN [panic |-> TRUE, t |-> PanicT]
    ELSE [panic |-> \E i \in 1..3 : ~parse_u64(line[i]).ok,
          t |-> T(parse_u64(line[2]).value, parse_u64(line[1]).value,
                  parse_u64(line[3]).value)]

\* FromStr for Map: the lines holding "map" are skipped, the others parsed
Map_from_str(paragraph) ==
    [panic |-> Translation_from_str(paragraph.line).panic,
     translations |-> <<Translation_from_str(paragraph.line).t>>]

parse_input(text) ==
    LET seeds == parse_seeds(text.first)
        maps == [i \in DOMAIN text.maps |-> Map_from_str(text.maps[i])]
    IN  [panic |-> seeds.panic \/ \E i \in DOMAIN maps : maps[i].panic,
         seeds |-> seeds.seeds,
         categories |-> [i \in DOMAIN maps |-> maps[i].translations]]

\* the tokens of the texts: two numbers, a word, and the header
NumberTokens == {<<"7">>, <<"1", "2">>}
WordToken == <<"x">>

\* texts of a first paragraph and at most one map paragraph, which is a
\* translation line below an optional `... map:` line
Texts ==
    [first : UNION {[1..n -> NumberTokens \cup {WordToken, SeedsToken}] :
                       n \in 0..MaxSeedTokens},
     maps : UNION {[1..n ->
                      [header : BOOLEAN,
                       line : UNION {[1..k -> NumberTokens \cup {WordToken}] :
                                        k \in 0..MaxFields}]] : n \in 0..1}]

----------------------------------------------------------------------------
(* Inputs *)

Vals == 0..MaxVal

Translations ==
    {T(s, d, n) : s \in Vals, d \in Vals, n \in 1..MaxVal} \cap
    {t \in [src : Vals, dst : Vals, rng : 1..MaxVal] :
        t.src + t.rng <= MaxVal /\ t.dst + t.rng <= MaxVal}

\* rng > 0 and pairwise-disjoint sources
WellFormed(m) ==
    /\ \A i \in DOMAIN m : m[i].rng > 0
    /\ \A i \in DOMAIN m : \A j \in DOMAIN m :
           i # j => (end(m[i]) <= start(m[j]) \/ end(m[j]) <= start(m[i]))

\* every translation list of at most k translations: rng > 0, sources
\* overlapping or not
AnyMapsUpTo(k) == UNION {[1..n -> Translations] : n \in 0..k}

MapsUpTo(k) == {m \in AnyMapsUpTo(k) : WellFormed(m)}

\* ranges with start <= end, the empty ones included
Ranges == {R(a, b) : a \in Vals, b \in Vals} \cap
          {r \in [start : Vals, end : Vals] : r.start <= r.end}

NonEmptyRanges == {r \in Ranges : r.start < r.end}

SeqsUpTo(S, k) == UNION {[1..n -> S] : n \in 1..k}

\* a (start, length) pair of the `seeds:` line, holding at least one seed
SeedPairs == {p \in Vals \X (1..MaxVal) : p[1] + p[2] <= MaxVal}

\* the published example (tests test_solve / test_solve2)
Example ==
    [seeds |-> <<79, 14, 55, 13>>,
     categories |-> <<
        <<T(98, 50, 2), T(50, 52, 48)>>,
        <<T(15, 0, 37), T(52, 37, 2), T(0, 39, 15)>>,
        <<T(53, 49, 8), T(11, 0, 42), T(0, 42, 7), T(7, 57, 4)>>,
        <<T(18, 88, 7), T(25, 18, 70)>>,
        <<T(77, 45, 23), T(45, 81, 19), T(64, 68, 13)>>,
        <<T(69, 0, 1), T(0, 1, 69)>>,
        <<T(56, 60, 37), T(93, 56, 4)>> >>]

Inputs ==
    {[seeds |-> p, categories |-> cs] :
        p \in SeedPairs,
        cs \in UNION {[1..n -> MapsUpTo(MaxStageTrans)] : n \in 0..MaxStages}}
    \cup {Example}

\* the Map and the values of test_map_translation
TestMap == <<T(98, 50, 2)>>
TestValues == {97, 98, 99, 100}

NoInput == [seeds |-> <<>>, categories |-> <<>>]
NoCall == [op |-> "none"]

----------------------------------------------------------------------------
(* Spec: solve2, then solve2b, on the same input *)

Init ==
    /\ input \in Inputs
    /\ pc = "solve2"
    /\ ranges = seed_ranges(input.seeds)
    /\ ci = 0
    /\ basemap = <<>>
    /\ res2 = NoResult
    /\ res2b = NoResult
    /\ self = <<>>
    /\ call = NoCall

\* solve2: one iteration of `for c in categories`
Solve2Stage ==
    /\ pc = "solve2"
    /\ ci < Len(input.categories)
    /\ ranges' = solve2_stage(input.categories[ci + 1], ranges)
    /\ ci' = ci + 1
    /\ pc' = IF solve2_stage_panics(input.categories[ci + 1], ranges)
             THEN "panic" ELSE pc
    /\ UNCHANGED <<input, basemap, res2, res2b, self, call>>

\* solve2 returns the lowest start; solve2b starts on the same input
Solve2Return ==
    /\ pc = "solve2"
    /\ ci = Len(input.categories)
    /\ res2' = Min({ranges[i].start : i \in DOMAIN ranges})
    /\ pc' = "solve2b"
    /\ ranges' = seed_ranges(input.seeds)
    /\ ci' = 0
    /\ basemap' = <<>>
    /\ UNCHANGED <<input, res2b, self, call>>

\* solve2b: one iteration of `for c in categories.iter_mut()`:
\* basemap.add_map(c); basemap.detect_overlaps();
Solve2bStage ==
    /\ pc = "solve2b"
    /\ ci < Len(input.categories)
    /\ basemap' = add_map(basemap, input.categories[ci + 1])
    /\ ci' = ci + 1
    /\ pc' = IF detect_overlaps(basemap') THEN "panic" ELSE pc
    /\ UNCHANGED <<input, ranges, res2, res2b, self, call>>

\* solve2b returns basemap.lowest_in_ranges(ranges)
Solve2bReturn ==
    /\ pc = "solve2b"
    /\ ci = Len(input.categories)
    /\ res2b' = lowest_in_ranges(basemap, ranges)
    /\ pc' = "done"
    /\ UNCHANGED <<input, ranges, ci, basemap, res2, self, call>>

Next == Solve2Stage \/ Solve2Return \/ Solve2bStage \/ Solve2bReturn

Spec == Init /\ [][Next]_vars

----------------------------------------------------------------------------
(* SpecSolve: solve on a parsed input *)

InitSolve ==
    /\ input \in Inputs
    /\ pc = "solve"
    /\ ranges = <<>>
    /\ ci = 0
    /\ basemap = <<>>
    /\ res2 = NoResult
    /\ res2b = NoResult
    /\ self = <<>>
    /\ call = NoCall

\* solve returns the lowest location
SolveReturn ==
    /\ pc = "solve"
    /\ call' = [op |-> "solve", ret |-> solve(input.seeds, input.categories)]
    /\ pc' = "done"
    /\ UNCHANGED <<input, ranges, ci, basemap, res2, res2b, self>>

NextSolve == SolveReturn

SpecSolve == InitSolve /\ [][NextSolve]_vars

----------------------------------------------------------------------------
(* SpecMap: self.add_map(other) followed by self.detect_overlaps(), as in  *)
(* solve2b and the tests test_overlap_check*, on every pair of well-formed *)
(* Maps (the empty Map included); each behaviour makes one call.           *)

driver == <<input, pc, ranges, ci, basemap, res2, res2b>>

Idle ==
    /\ input = NoInput
    /\ pc = "idle"
    /\ ranges = <<>>
    /\ ci = 0
    /\ basemap = <<>>
    /\ res2 = NoResult
    /\ res2b = NoResult

InitMap ==
    /\ self \in MapsUpTo(MaxAddTrans)
    /\ call = NoCall
    /\ Idle

\* self.add_map(&mut other); self.detect_overlaps();
CallAddMap ==
    /\ call = NoCall
    /\ \E other \in MapsUpTo(MaxAddTrans) :
        /\ self' = add_map(self, other)
        /\ call' = [op |-> "add_map", before |-> self, other |-> other,
                    panic |-> detect_overlaps(self')]
    /\ UNCHANGED driver

NextMap == CallAddMap

SpecMap == InitMap /\ [][NextMap]_vars

----------------------------------------------------------------------------
(* SpecAddMapSteps: self.add_map(&mut other) statement by statement.  The  *)
(* call record holds `ts` (other.translations, handed over as &mut) and    *)
(* the locals of add_adapt_translations; self0 and ts0 remember the two    *)
(* lists as they were on entry.                                            *)

\* mutant: the items put in front of the vector
extend_front(v, items) == items \o v

\* Vec::extend
extend(v, items) == v \o items

\* self.add_map(&mut other): add_adapt_translations(&mut other.translations)
EnterAddMap ==
    /\ call = NoCall
    /\ \E other \in MapsUpTo(MaxAddTrans) :
        call' = [op |-> "add_adapt_translations", pc |-> "new_inputs",
                 self0 |-> self, ts0 |-> other, ts |-> other,
                 new_inputs |-> <<>>, existing_with_holes |-> <<>>,
                 new_shifted |-> <<>>]
    /\ UNCHANGED <<self, driver>>

\* let mut new_inputs = ts.clone();
\* new_inputs = trans_vec_sub_src(&new_inputs, &self.translations);
StepNewInputs ==
    /\ call.op = "add_adapt_translations"
    /\ call.pc = "new_inputs"
    /\ call' = [call EXCEPT !.new_inputs = trans_vec_sub_src(call.ts, self),
                            !.pc = "existing_with_holes"]
    /\ UNCHANGED <<self, driver>>

\* let existing_with_holes = trans_vec_sub_dst(&self.translations, &ts);
StepExistingWithHoles ==
    /\ call.op = "add_adapt_translations"
    /\ call.pc = "existing_with_holes"
    /\ call' = [call EXCEPT !.existing_with_holes = trans_vec_sub_dst(self, call.ts),
                            !.pc = "new_shifted"]
    /\ UNCHANGED <<self, driver>>

\* let new_shifted = trans_vec_shift_overlaps(&self.translations, &ts);
StepNewShifted ==
    /\ call.op = "add_adapt_translations"
    /\ call.pc = "new_shifted"
    /\ call' = [call EXCEPT !.new_shifted = trans_vec_shift_overlaps(self, call.ts),
                            !.pc = "replace"]
    /\ UNCHANGED <<self, driver>>

\* self.translations = vec![]; followed by the three extend calls; return
StepReplace ==
    /\ call.op = "add_adapt_translations"
    /\ call.pc = "replace"
    /\ self' = extend(extend(extend(<<>>, call.new_inputs),
                             call.existing_with_holes),
                      call.new_shifted)
    /\ call' = [call EXCEPT !.pc = "return"]
    /\ UNCHANGED driver

NextAddMapSteps ==
    \/ EnterAddMap
    \/ StepNewInputs
    \/ StepExistingWithHoles
    \/ StepNewShifted
    \/ StepReplace

SpecAddMapSteps == InitMap /\ [][NextAddMapSteps]_vars

----------------------------------------------------------------------------
(* SpecQuery: one query on a Map.  The queries take &self, so a later      *)
(* query would meet the same Map: each behaviour makes one.                *)

InitQuery ==
    /\ self \in AnyMapsUpTo(MaxTrans)
    /\ call = NoCall
    /\ Idle

\* self.detect_overlaps()
CallDetectOverlaps ==
    /\ call = NoCall
    /\ call' = [op |-> "detect_overlaps", panic |-> detect_overlaps(self)]
    /\ UNCHANGED <<self, driver>>

\* self.translate_range(&r)
CallTranslateRange ==
    /\ call = NoCall
    /\ \E r \in Ranges :
        call' = [op |-> "translate_range", r |-> r,
                 ret |-> Map_translate_range(self, r),
                 panic |-> Map_translate_range_panics(self, r)]
    /\ UNCHANGED <<self, driver>>

\* self.lowest_in_ranges(rs)
CallLowestInRanges ==
    /\ call = NoCall
    /\ \E rs \in SeqsUpTo(NonEmptyRanges, MaxRanges) :
        call' = [op |-> "lowest_in_ranges", rs |-> rs,
                 ret |-> lowest_in_ranges(self, rs)]
    /\ UNCHANGED <<self, driver>>

NextQuery == CallDetectOverlaps \/ CallTranslateRange \/ CallLowestInRanges

SpecQuery == InitQuery /\ [][NextQuery]_vars

----------------------------------------------------------------------------
(* SpecRange: self.translate_range(&r) alone, one call per behaviour *)

NextRange == CallTranslateRange

SpecRange == InitQuery /\ [][NextRange]_vars

----------------------------------------------------------------------------
(* SpecScalar: self.translate(value), one call per behaviour, on every     *)
(* translation list (sources overlapping or not) and on the Map of         *)
(* test_map_translation                                                    *)

InitScalar ==
    /\ self \in AnyMapsUpTo(MaxTrans) \cup {TestMap}
    /\ call = NoCall
    /\ Idle

\* self.translate(value)
CallTranslate ==
    /\ call = NoCall
    /\ \E value \in Vals \cup TestValues :
        call' = [op |-> "translate", value |-> value,
                 ret |-> Map_translate(self, value)]
    /\ UNCHANGED <<self, driver>>

NextScalar == CallTranslate

SpecScalar == InitScalar /\ [][NextScalar]_vars

----------------------------------------------------------------------------
(* SpecParse: parse_input on a text, as solve, solve2 and solve2b call it  *)
(* before anything else                                                    *)

InitParse ==
    /\ self = <<>>
    /\ call = NoCall
    /\ Idle

\* parse_input(input): a panic ends the program, else the driver goes on
\* with (seeds, categories)
CallParseInput ==
    /\ call = NoCall
    /\ \E text \in Texts :
        /\ call' = [op |-> "parse_input", text |-> text,
                    panic |-> parse_input(text).panic]
        /\ input' = IF parse_input(text).panic THEN NoInput
                    ELSE [seeds |-> parse_input(text).seeds,
                          categories |-> parse_input(text).categories]
        /\ pc' = IF parse_input(text).panic THEN "panic" ELSE "parsed"
    /\ UNCHANGED <<ranges, ci, basemap, res2, res2b, self>>

NextParse == CallParseInput

SpecParse == InitParse /\ [][NextParse]_vars

----------------------------------------------------------------------------
(* SpecTranslation: one call of Translation::translate_range or of an      *)
(* interval-algebra function, on translations with rng > 0                 *)

InitTranslation ==
    /\ self = <<>>
    /\ call = NoCall
    /\ Idle

\* t.translate_range(&r)
CallTranslationTranslateRange ==
    /\ call = NoCall
    /\ \E t \in Translations : \E r \in Ranges :
        call' = [op |-> "Translation::translate_range", t |-> t, r |-> r,
                 ret |-> Translation_translate_range(t, r)]
    /\ UNCHANGED <<self, driver>>

\* trans_sub_src(&a, &b)
CallTransSubSrc ==
    /\ call = NoCall
    /\ \E a \in Translations : \E b \in Translations :
        call' = [op |-> "trans_sub_src", a |-> a, b |-> b,
                 ret |-> trans_sub_src(a, b)]
    /\ UNCHANGED <<self, driver>>

\* trans_sub_dst(&a, &b)
CallTransSubDst ==
    /\ call = NoCall
    /\ \E a \in Translations : \E b \in Translations :
        call' = [op |-> "trans_sub_dst", a |-> a, b |-> b,
                 ret |-> trans_sub_dst(a, b)]
    /\ UNCHANGED <<self, driver>>

\* trans_shift_overlaps(&a, &b)
CallTransShiftOverlaps ==
    /\ call = NoCall
    /\ \E a \in Translations : \E b \in Translations :
        call' = [op |-> "trans_shift_overlaps", a |-> a, b |-> b,
                 ret |-> trans_shift_overlaps(a, b)]
    /\ UNCHANGED <<self, driver>>

NextTranslation ==
    \/ CallTranslationTranslateRange
    \/ CallTransSubSrc
    \/ CallTransSubDst
    \/ CallTransShiftOverlaps

SpecTranslation == InitTranslation /\ [][NextTranslation]_vars

----------------------------------------------------------------------------
(* SpecVec: one call of a vector operation on two translation lists *)

InitVec ==
    /\ self = <<>>
    /\ call = NoCall
    /\ Idle

\* trans_vec_sub_src(&a, &b)
CallTransVecSubSrc ==
    /\ call = NoCall
    /\ \E a \in AnyMapsUpTo(MaxTrans) : \E b \in AnyMapsUpTo(MaxTrans) :
        call' = [op |-> "trans_vec_sub_src", a |-> a, b |-> b,
                 ret |-> trans_vec_sub_src(a, b)]
    /\ UNCHANGED <<self, driver>>

\* trans_vec_sub_dst(&a, &b)
CallTransVecSubDst ==
    /\ call = NoCall
    /\ \E a \in AnyMapsUpTo(MaxTrans) : \E b \in AnyMapsUpTo(MaxTrans) :
        call' = [op |-> "trans_vec_sub_dst", a |-> a, b |-> b,
                 ret |-> trans_vec_sub_dst(a, b)]
    /\ UNCHANGED <<self, driver>>

\* trans_vec_shift_overlaps(&a, &b)
CallTransVecShiftOverlaps ==
    /\ call = NoCall
    /\ \E a \in AnyMapsUpTo(MaxTrans) : \E b \in AnyMapsUpTo(MaxTrans) :
        call' = [op |-> "trans_vec_shift_overlaps", a |-> a, b |-> b,
                 ret |-> trans_vec_shift_overlaps(a, b)]
    /\ UNCHANGED <<self, driver>>

NextVec ==
    \/ CallTransVecSubSrc
    \/ CallTransVecSubDst
    \/ CallTransVecShiftOverlaps

SpecVec == InitVec /\ [][NextVec]_vars

----------------------------------------------------------------------------
(* SpecSimplify: Map::simplify_ranges, one call per behaviour *)

InitSimplify ==
    /\ self = <<>>
    /\ call = NoCall
    /\ Idle

\* Map::simplify_ranges(xs)
CallSimplifyRanges ==
    /\ call = NoCall
    /\ \E xs \in SeqsUpTo(Ranges, MaxLen) :
        call' = [op |-> "simplify_ranges", xs |-> xs, ret |-> simplify_ranges(xs)]
    /\ UNCHANGED <<self, driver>>

NextSimplify == CallSimplifyRanges

SpecSimplify == InitSimplify /\ [][NextSimplify]_vars

----------------------------------------------------------------------------
(* Vocabulary of the properties *)

\* the integers of the half-open interval r
Points(r) == {v \in r.start..(r.end - 1) : TRUE}

Covered(rs) == UNION {Points(rs[i]) : i \in DOMAIN rs}

RECURSIVE TotalLength(_)
TotalLength(rs) ==
    IF rs = <<>> THEN 0 ELSE (Head(rs).end - Head(rs).start) + TotalLength(Tail(rs))

DisjointSources(m) ==
    \A i \in DOMAIN m : \A j \in DOMAIN m :
        i # j => ~(start(m[i]) < end(m[j]) /\ end(m[i]) > start(m[j]))

\* the value v has after the first k stages
AfterStages(categories, v, k) ==
    LET at[n \in 0..k] ==
            IF n = 0 THEN v ELSE Map_translate(categories[n], at[n - 1])
    IN  at[k]

\* the location of seed v: its value after every stage
Location(categories, v) == AfterStages(categories, v, Len(categories))

----------------------------------------------------------------------------
(* Properties *)

\* C1: strategy agreement.  On every valid input solve2 (interval walk) and
\* solve2b (add_map of every stage into an empty Map, then lowest_in_ranges)
\* return the same minimum.
C1_StrategyAgreement == pc = "done" => res2 = res2b

\* C2: add_map is functional composition.  After self.add_map(other), with
\* both Maps well formed, every value v has
\* self_after.translate(v) = other.translate(self_before.translate(v)).
C2_AddMapComposes ==
    (call.op = "add_map" /\ WellFormed(call.before) /\ WellFormed(call.other))
    => \A v \in Vals :
           Map_translate(self, v)
               = Map_translate(call.other, Map_translate(call.before, v))

\* C3: pointwise consistency.  For a well-formed Map, a non-empty interval r
\* and every v in r, exactly one interval of translate_range(r) contains
\* translate(v).
C3_PointwiseConsistency ==
    (call.op = "translate_range" /\ WellFormed(self) /\ call.r.start < call.r.end)
    => \A v \in Points(call.r) :
           Cardinality({i \in DOMAIN call.ret :
                           Map_translate(self, v) \in Points(call.ret[i])}) = 1

\* C4: conservation of measure.  The lengths (end - start) of the intervals
\* of translate_range(r) add up to r.end - r.start.
C4_ConservationOfMeasure ==
    call.op = "translate_range"
    => TotalLength(call.ret) = call.r.end - call.r.start

C6_LowestIsMinimum ==
    (call.op = "lowest_in_ranges" /\ WellFormed(self))
    => call.ret = Min({Map_translate(self, v) : v \in Covered(call.rs)})

\* C7: simplify_ranges neither loses nor adds coverage: the integers covered
\* by the result are exactly those covered by the input intervals.
C7_SimplifyKeepsCoverage ==
    call.op = "simplify_ranges" => Covered(call.ret) = Covered(call.xs)

\* C8: simplify_ranges returns intervals sorted by start and pairwise
\* disjoint: each one ends at or before the start of every later one.
C8_SimplifySortedDisjoint ==
    call.op = "simplify_ranges"
    => \A i \in DOMAIN call.ret : \A j \in DOMAIN call.ret :
           i < j => /\ call.ret[i].start <= call.ret[j].start
                    /\ call.ret[i].end <= call.ret[j].start

\* C8 witness: three intervals given out of order, of which two were merged
\* and one kept apart.
C8_Witness ==
    /\ call.op = "simplify_ranges"
    /\ Len(call.xs) = 3
    /\ call.xs[1].start > call.xs[2].start
    /\ Len(call.ret) = 2
    /\ call.ret[1].end - call.ret[1].start > 1

\* C9: identity composition.  m.add_map(empty) and empty.add_map(m) both
\* leave a Map that translates every value and every interval as m does.
C9_IdentityComposition ==
    (call.op = "add_map" /\ (call.other = <<>> \/ call.before = <<>>))
    => LET m == IF call.other = <<>> THEN call.before ELSE call.other IN
       /\ \A v \in Vals : Map_translate(self, v) = Map_translate(m, v)
       /\ \A r \in Ranges : Map_translate_range(self, r) = Map_translate_range(m, r)

\* C9 witness: the empty Map added to a Map whose translation moves its
\* source.
C9_Witness ==
    /\ call.op = "add_map"
    /\ call.other = <<>>
    /\ call.before # <<>>
    /\ \E v \in Vals : Map_translate(call.before, v) # v

\* C10: on the published example, read as the intervals [79,93) and [55,68),
\* solve2 and solve2b both return 46 (and neither panics).
C10_ExampleIs46 ==
    input = Example
    => /\ pc # "panic"
       /\ pc = "done" => (res2 = 46 /\ res2b = 46)

\* C10 witness: both strategies have returned on the published example.
C10_Witness == input = Example /\ pc = "done" /\ ci = 7

\* C11: solve returns the minimum, over all seed values, of the value the
\* seed has after being threaded left to right through every stage with
\* Map.translate; on the published example that is 35.
C11_SolveIsMinLocation ==
    call.op = "solve"
    => /\ \E i \in DOMAIN input.seeds :
              call.ret = Location(input.categories, input.seeds[i])
       /\ \A i \in DOMAIN input.seeds :
              call.ret <= Location(input.categories, input.seeds[i])
       /\ input = Example => call.ret = 35

\* C11 witness: solve has returned 35 on the published example.
C11_Witness == call.op = "solve" /\ input = Example /\ call.ret = 35

\* the translations of m whose half-open source src <= v < src + rng holds v
Hits(m, v) == {i \in DOMAIN m : m[i].src <= v /\ v < m[i].src + m[i].rng}

\* C12: Map.translate with half-open sources.  translate(v) is
\* dst + (v - src) for the first translation in list order with
\* src <= v < src + rng, and v when no source holds v, so v = src + rng is
\* not translated; on `50 98 2`: 97 -> 97, 98 -> 50, 99 -> 51, 100 -> 100.
C12_TranslateFirstMatch ==
    call.op = "translate"
    => /\ Hits(self, call.value) = {} => call.ret = call.value
       /\ Hits(self, call.value) # {} =>
              LET t == self[Min(Hits(self, call.value))]
              IN  call.ret = t.dst + (call.value - t.src)
       /\ self = TestMap =>
              /\ call.value = 97 => call.ret = 97
              /\ call.value = 98 => call.ret = 50
              /\ call.value = 99 => call.ret = 51
              /\ call.value = 100 => call.ret = 100

\* C12 witness: a value sitting exactly at the end of the first translation
\* of the list, which does not translate it, and inside the source of the
\* second, which moves it.
C12_Witness ==
    /\ call.op = "translate"
    /\ Len(self) = 2
    /\ call.value = self[1].src + self[1].rng
    /\ Hits(self, call.value) = {2}
    /\ call.ret # call.value
\* a token that reads as an unsigned integer: one digit or more, digits only
IsInteger(token) == token # <<>> /\ \A i \in DOMAIN token : token[i] \in Digits

\* the first paragraph does not start with the `seeds:` header
LacksHeader(text) == text.first = <<>> \/ text.first[1] # SeedsToken

\* a token after the header, or a field of a translation line, is not an
\* integer
NonIntegerToken(text) ==
    \/ \E i \in DOMAIN text.first :
          ~(i = 1 /\ text.first[i] = SeedsToken) /\ ~IsInteger(text.first[i])
    \/ \E p \in DOMAIN text.maps : \E i \in DOMAIN text.maps[p].line :
          ~IsInteger(text.maps[p].line[i])

WrongFieldCount(text) == \E p \in DOMAIN text.maps : Len(text.maps[p].line) # 3

\* the tokens of the first paragraph that .replace("seeds: ", "") leaves
KeptSeedTokens(first) ==
    {i \in DOMAIN first : ~(first[i] = SeedsToken /\ i < Len(first))}

C14_NoUnhandledCase ==
    call.op = "Translation::translate_range" => ~call.ret.panic

\* C14 witness: r overlaps the translation's source on the left only (the
\* case tested after both containments) and the call returned both parts.
C14_Witness ==
    /\ call.op = "Translation::translate_range"
    /\ call.r.start < start(call.t)
    /\ call.r.end > start(call.t)
    /\ call.r.end < end(call.t)
    /\ ~call.ret.panic
    /\ Len(call.ret.translated) = 1
    /\ Len(call.ret.not_translated) = 1

\* C15: snip preconditions hold inside the interval algebra.  Every
\* translation returned by trans_sub_src, trans_sub_dst and
\* trans_shift_overlaps on a, b with rng > 0 has rng > 0: a snip by more than
\* the current rng of its target would have panicked (leaving rng < 0) and a
\* snip by exactly the current rng would have left rng = 0, so every snip
\* amount was strictly below the rng of its target.
C15_SnipsWithinRange ==
    call.op \in {"trans_sub_src", "trans_sub_dst", "trans_shift_overlaps"}
    => \A i \in DOMAIN call.ret : call.ret[i].rng > 0

\* C15 witness: b pokes a hole in a, so a was snipped on the right for one
\* slice and on the left for the other.
C15_Witness ==
    /\ call.op = "trans_sub_src"
    /\ start(call.b) > start(call.a)
    /\ end(call.b) < end(call.a)
    /\ Len(call.ret) = 2
    /\ call.ret[1].rng > 0
    /\ call.ret[2].rng > 0
    /\ call.ret[1].rng + call.ret[2].rng < call.a.rng
\* C16: solve2 computes the true part-2 answer.  On every valid input it
\* returns the minimum, over every integer v of some seed interval
\* [start, start + length), of the location of v (v threaded left to right
\* through all stages with Map.translate).
C16_Solve2IsTrueMinimum ==
    res2 # NoResult
    => res2 = Min({Location(input.categories, v) :
                      v \in Covered(seed_ranges(input.seeds))})
\* the integers of the source interval of t
SourcePoints(t) == Points(range(t))

\* C17: Translation.translate_range partitions its input.  For rng > 0 and a
\* non-empty r the passthrough intervals cover exactly r minus the source of
\* t, the translated intervals cover exactly the image
\* {dst + (v - src) : v in r, src <= v < src + rng}, and the lengths of all
\* returned intervals add up to the length of r.
C17_TranslateRangePartitions ==
    (call.op = "Translation::translate_range" /\ call.r.start < call.r.end)
    => /\ Covered(call.ret.not_translated)
              = Points(call.r) \ SourcePoints(call.t)
       /\ Covered(call.ret.translated)
              = {call.t.dst + (v - call.t.src) :
                    v \in Points(call.r) \cap SourcePoints(call.t)}
       /\ TotalLength(call.ret.translated) + TotalLength(call.ret.not_translated)
              = call.r.end - call.r.start

\* C18: disjoint case of Translation.translate_range.  Whenever
\* end() <= r.start or start() >= r.end, a range that starts exactly at the
\* translation's end or ends exactly at its start included, nothing is
\* translated and the passthrough is {r}.  (Stated for the non-empty r.)
C18_DisjointPassesThrough ==
    (/\ call.op = "Translation::translate_range"
     /\ call.r.start < call.r.end
     /\ (end(call.t) <= call.r.start \/ start(call.t) >= call.r.end))
    => /\ call.ret.translated = <<>>
       /\ call.ret.not_translated = <<call.r>>

\* the slices are slices of a: each keeps a's offset dst - src
SlicesOf(a, slices) ==
    \A i \in DOMAIN slices :
        slices[i].rng > 0 /\ slices[i].dst - slices[i].src = a.dst - a.src

\* C19: trans_sub_src removes exactly b's source from a.  For rng > 0 the
\* result is slices of a with pairwise-disjoint sources whose union is a's
\* source minus b's source; when the two sources are disjoint, merely
\* abutting included, the result is {a}.
C19_SubSrcRemovesSource ==
    call.op = "trans_sub_src"
    => /\ SlicesOf(call.a, call.ret)
       /\ \A i \in DOMAIN call.ret : \A j \in DOMAIN call.ret :
              i # j => SourcePoints(call.ret[i]) \cap SourcePoints(call.ret[j]) = {}
       /\ UNION {SourcePoints(call.ret[i]) : i \in DOMAIN call.ret}
              = SourcePoints(call.a) \ SourcePoints(call.b)
       /\ SourcePoints(call.a) \cap SourcePoints(call.b) = {}
              => call.ret = <<call.a>>

\* the integers of the destination interval of t
OutPoints(t) == Points(out_range(t))

\* C20: trans_sub_dst keeps exactly the part of a whose output b does not
\* remap.  For rng > 0 the result is slices of a with pairwise-disjoint
\* destinations whose union is a's destination minus b's source; when b's
\* source and a's destination are disjoint, abutting on either side
\* included, the result is {a}.
C20_SubDstKeepsUnmapped ==
    call.op = "trans_sub_dst"
    => /\ SlicesOf(call.a, call.ret)
       /\ \A i \in DOMAIN call.ret : \A j \in DOMAIN call.ret :
              i # j => OutPoints(call.ret[i]) \cap OutPoints(call.ret[j]) = {}
       /\ UNION {OutPoints(call.ret[i]) : i \in DOMAIN call.ret}
              = OutPoints(call.a) \ SourcePoints(call.b)
       /\ OutPoints(call.a) \cap SourcePoints(call.b) = {}
              => call.ret = <<call.a>>
\* what a slice of a lost on the left and on the right
Snipped(a, slice) ==
    [left |-> start(slice) - start(a), right |-> end(a) - end(slice)]

\* C21: trans_sub_dst and trans_sub_src have the same boundary conditions
\* once a's destination interval stands for a's source interval: for rng > 0
\* trans_sub_dst(a, b) returns as many slices of a, snipped by the same
\* amounts on the left and on the right, as trans_sub_src(a', b) returns of
\* a', where a' is a with src set to a.dst.
C21_SubDstMirrorsSubSrc ==
    call.op = "trans_sub_dst"
    => LET a2 == [call.a EXCEPT !.src = call.a.dst]
           mirror == trans_sub_src(a2, call.b)
       IN  /\ Len(call.ret) = Len(mirror)
           /\ \A i \in DOMAIN call.ret : i \in DOMAIN mirror =>
                  Snipped(call.a, call.ret[i]) = Snipped(a2, mirror[i])
\* C22: trans_shift_overlaps re-routes exactly the overlap.  For rng > 0 the
\* sources of the translations returned cover exactly the values v of a's
\* source with a.translate(v) inside b's source, and each such v is sent to
\* b.translate(a.translate(v)); when a's output and b's source do not
\* overlap the result is empty.
C22_ShiftReroutesOverlap ==
    call.op = "trans_shift_overlaps"
    => /\ UNION {SourcePoints(call.ret[i]) : i \in DOMAIN call.ret}
              = {v \in SourcePoints(call.a) :
                    Translation_translate(call.a, v) \in SourcePoints(call.b)}
       /\ \A i \in DOMAIN call.ret : \A v \in SourcePoints(call.ret[i]) :
              Translation_translate(call.ret[i], v)
                  = Translation_translate(call.b, Translation_translate(call.a, v))
       /\ OutPoints(call.a) \cap SourcePoints(call.b) = {} => call.ret = <<>>

\* C22 witness: b's source starts strictly inside a's output and a moves its
\* source, so the returned translation starts inside a's source, not where
\* b starts, and moves its values as b does.
C22_Witness ==
    /\ call.op = "trans_shift_overlaps"
    /\ start(call.b) > call.a.dst
    /\ start(call.b) < call.a.dst + call.a.rng
    /\ Len(call.ret) = 1
    /\ call.ret[1].src # call.b.src
    /\ call.ret[1].src > call.a.src
    /\ call.ret[1].dst = call.b.dst
\* the blocks F(1), F(2), ..., F(n) one after the other
Blocks(F(_), n) ==
    LET upto[k \in 0..n] == IF k = 0 THEN <<>> ELSE upto[k - 1] \o F(k)
    IN  upto[n]

\* the pieces of the single element x of the first argument
PiecesOf(op, x, b) ==
    CASE op = "trans_vec_sub_src" -> trans_vec_sub_src(<<x>>, b)
      [] op = "trans_vec_sub_dst" -> trans_vec_sub_dst(<<x>>, b)
      [] op = "trans_vec_shift_overlaps" -> trans_vec_shift_overlaps(<<x>>, b)

VecOps == {"trans_vec_sub_src", "trans_vec_sub_dst", "trans_vec_shift_overlaps"}

\* C23 (as stated): the three vector operations are order-preserving on
\* their first argument: the result is the pieces of a[1], then the pieces
\* of a[2], and so on, so every piece of a[i] comes before every piece of
\* a[j] when i < j.
C23_OrderPreserving ==
    call.op \in VecOps
    => call.ret = Blocks(LAMBDA i : PiecesOf(call.op, call.a[i], call.b),
                         Len(call.a))

\* C23 (amended): trans_vec_sub_src and trans_vec_sub_dst are
\* order-preserving on their first argument; trans_vec_shift_overlaps
\* follows its second argument first: its result is, for b[1], then b[2],
\* and so on, the pieces of a[1], a[2], ... re-routed through that b[j].
C23_OrderOfPieces ==
    /\ call.op \in {"trans_vec_sub_src", "trans_vec_sub_dst"}
       => call.ret = Blocks(LAMBDA i : PiecesOf(call.op, call.a[i], call.b),
                            Len(call.a))
    /\ call.op = "trans_vec_shift_overlaps"
       => call.ret =
            Blocks(LAMBDA j :
                     Blocks(LAMBDA i : trans_shift_overlaps(call.a[i], call.b[j]),
                            Len(call.a)),
                   Len(call.b))

\* C23 witness: a shift of two translations through two others that yields
\* a piece of a[2] (through b[1]) in front of a piece of a[1] (through b[2]).
C23_Witness ==
    /\ call.op = "trans_vec_shift_overlaps"
    /\ Len(call.a) = 2
    /\ Len(call.b) = 2
    /\ trans_shift_overlaps(call.a[2], call.b[1]) # <<>>
    /\ trans_shift_overlaps(call.a[1], call.b[2]) # <<>>
    /\ call.ret # Blocks(LAMBDA i : PiecesOf(call.op, call.a[i], call.b), 2)
\* the orderings of the list m
Orderings(m) ==
    {[i \in DOMAIN m |-> m[p[i]]] :
        p \in {q \in [DOMAIN m -> DOMAIN m] :
                  \A i \in DOMAIN m : \A j \in DOMAIN m : q[i] = q[j] => i = j}}

\* the set of the intervals of a list
Intervals(rs) == {rs[i] : i \in DOMAIN rs}

\* C24: consultation order is immaterial within a stage.  For a Map with
\* rng > 0 and pairwise-disjoint sources and an interval r (taken non-empty
\* here), translate_range(r) returns the same set of intervals for every
\* ordering of the Map's translation list.
C24_OrderImmaterial ==
    (call.op = "translate_range" /\ WellFormed(self) /\ call.r.start < call.r.end)
    => \A m \in Orderings(self) :
           Intervals(Map_translate_range(m, call.r)) = Intervals(call.ret)
\* C25: detect_overlaps is fatal exactly when the Map is malformed.  For a
\* Map with rng > 0 it panics if and only if two translations at distinct
\* positions of the list have overlapping source intervals, two
\* translations with the same source interval included.
C25_DetectOverlapsExact ==
    call.op = "detect_overlaps"
    => (call.panic <=>
          \E i \in DOMAIN self : \E j \in DOMAIN self :
              /\ i # j
              /\ SourcePoints(self[i]) \cap SourcePoints(self[j]) # {})
\* C26: add_map mutates only self's translation list.  other's list is at
\* every point of the call what it was on entry, self's list is untouched
\* until the final replacement, each of the three phases is what its
\* function gives on the two lists as they were on entry, and the new list
\* is new inputs, then existing with holes, then shifted overlaps.
C26_AddMapFrame ==
    call.op = "add_adapt_translations"
    => /\ call.ts = call.ts0
       /\ call.pc # "return" => self = call.self0
       /\ call.pc \in {"existing_with_holes", "new_shifted", "replace", "return"}
          => call.new_inputs = trans_vec_sub_src(call.ts0, call.self0)
       /\ call.pc \in {"new_shifted", "replace", "return"}
          => call.existing_with_holes = trans_vec_sub_dst(call.self0, call.ts0)
       /\ call.pc \in {"replace", "return"}
          => call.new_shifted = trans_vec_shift_overlaps(call.self0, call.ts0)
       /\ call.pc = "return"
          => /\ self = trans_vec_sub_src(call.ts0, call.self0)
                         \o trans_vec_sub_dst(call.self0, call.ts0)
                         \o trans_vec_shift_overlaps(call.self0, call.ts0)
             /\ self = add_map(call.self0, call.ts0)

\* C26 witness: an add_map has returned whose three phases each gave a
\* translation, leaving a list different from the one self had on entry.
C26_Witness ==
    /\ call.op = "add_adapt_translations"
    /\ call.pc = "return"
    /\ call.new_inputs # <<>>
    /\ call.existing_with_holes # <<>>
    /\ call.new_shifted # <<>>
    /\ self # call.self0
    /\ Len(self) = 3
\* `output` of Map::translate_range once `remaining` is appended to it,
\* before the is_empty test
Combined(m, r) ==
    LET s == translate_all(m, <<>>, <<r>>, FALSE) IN s.output \o s.remaining

C28_HolesAndShiftsPartition ==
    call.op = "trans_sub_dst"
    => LET pieces == call.ret \o trans_shift_overlaps(call.a, call.b) IN
       /\ \A i \in DOMAIN pieces : \A j \in DOMAIN pieces :
              i # j => SourcePoints(pieces[i]) \cap SourcePoints(pieces[j]) = {}
       /\ UNION {SourcePoints(pieces[i]) : i \in DOMAIN pieces}
              = SourcePoints(call.a)

\* C29: Map.translate_range returns only well-formed intervals.  For a Map
\* with rng > 0 and pairwise-disjoint sources and a non-empty r, every
\* interval of the result has start < end.
C29_ResultIntervalsNonEmpty ==
    (call.op = "translate_range" /\ WellFormed(self) /\ call.r.start < call.r.end)
    => \A i \in DOMAIN call.ret : call.ret[i].start < call.ret[i].end
\* the smallest start among the intervals of a non-empty list
MinStart(rs) == Min({rs[i].start : i \in DOMAIN rs})

\* C30: simplify_ranges preserves the minimum start.  For a non-empty list
\* xs of intervals with start <= end, the smallest start among the
\* intervals of simplify_ranges(xs) is the smallest start among those of xs.
C30_SimplifyKeepsMinStart ==
    call.op = "simplify_ranges"
    => /\ call.ret # <<>>
       /\ MinStart(call.ret) = MinStart(call.xs)

\* C30 witness: the interval with the smallest start came last, and
\* intervals were merged or dropped.
C30_Witness ==
    /\ call.op = "simplify_ranges"
    /\ Len(call.xs) = 3
    /\ call.xs[3].start < call.xs[1].start
    /\ call.xs[3].start < call.xs[2].start
    /\ Len(call.ret) < 3
    /\ call.ret[1].start = call.xs[3].start
====
